---------------------------- MODULE Spec2Model ----------------------------
(***************************************************************************)
(* A model of the two fit shapes whose evaluators are in src/lib:           *)
(*   RooGaussBern::evaluate  (Gaussian core, Bernstein-polynomial tails)    *)
(*   RooModDSCB::evaluate    (Gaussian core, blended power-law tails)       *)
(*                                                                         *)
(* Numbers.  A Double_t is modelled as an exact extended rational <<n, d>>  *)
(* in lowest terms with d >= 0:  d > 0 is the finite value n/d, and d = 0   *)
(* is one of the three IEEE specials  <<1,0>> = +Inf, <<-1,0>> = -Inf,      *)
(* <<0,0>> = NaN.  The operations follow IEEE-754 for these specials        *)
(* (x/0, 0/0, Inf-Inf, 0*Inf, comparisons with NaN, pow(x,0) = 1).          *)
(* Rounding, overflow, underflow and the sign of zero are not modelled:     *)
(* every finite result is the exact real one.                               *)
(*                                                                         *)
(* exp is transcendental, so a returned density is kept symbolically as     *)
(* the pair [c, e] that stands for  c * exp(e),  c an extended rational     *)
(* and e a finite rational.  Power-law exponents are integer valued, so     *)
(* that TMath::Power stays inside the rationals.                            *)
(***************************************************************************)
EXTENDS Integers, Sequences, FiniteSets, TLC

(***************************************************************************)
(* Bounds of the model.                                                    *)
(***************************************************************************)
\* longest Bernstein coefficient list on one side
MaxLen == 2
\* alphaL, alphaR are drawn from -1 .. MaxAlpha
MaxAlpha == 2
\* power-law exponents nL1, nL2, nR1, nR2 are drawn from 1 .. MaxN
MaxN == 2

(***************************************************************************)
(* Extended rational arithmetic (Double_t).                                *)
(***************************************************************************)
AbsInt(k) == IF k < 0 THEN -k ELSE k

SignInt(k) == IF k < 0 THEN -1 ELSE IF k > 0 THEN 1 ELSE 0

RECURSIVE Gcd(_, _)
Gcd(a, b) == IF b = 0 THEN a ELSE Gcd(b, a % b)

\* the Double_t n/d for integers n, d (d = 0 gives +Inf, -Inf or NaN)
Norm(n, d) ==
  IF d = 0 THEN <<SignInt(n), 0>>
  ELSE LET g == Gcd(AbsInt(n), AbsInt(d))
           s == IF d < 0 THEN -1 ELSE 1
       IN  <<(s * n) \div g, (s * d) \div g>>

\* an integer-valued Double_t
R(k) == <<k, 1>>

Zero == <<0, 1>>

One == <<1, 1>>

NaN == <<0, 0>>

IsNaN(a) == a = NaN

IsFinite(a) == a[2] > 0

IsInf(a) == a[2] = 0 /\ a[1] # 0

Neg(a) == <<-a[1], a[2]>>

\* a + b
Add(a, b) ==
  IF IsNaN(a) \/ IsNaN(b) THEN NaN
  ELSE IF IsInf(a) THEN (IF IsInf(b) /\ b # a THEN NaN ELSE a)
  ELSE IF IsInf(b) THEN b
  ELSE Norm(a[1] * b[2] + b[1] * a[2], a[2] * b[2])

\* a - b
Sub(a, b) == Add(a, Neg(b))

\* a * b   (0 * Inf and anything * NaN give <<0,0>> = NaN)
Mul(a, b) == Norm(a[1] * b[1], a[2] * b[2])

\* 1 / a   (1/0 = +Inf, 1/Inf = 0, 1/NaN = NaN)
Inv(a) == IF a[1] < 0 THEN <<-a[2], -a[1]>> ELSE <<a[2], a[1]>>

\* a / b
Div(a, b) == Mul(a, Inv(b))

\* a < b   (false when either side is NaN)
Less(a, b) ==
  IF IsNaN(a) \/ IsNaN(b) THEN FALSE
  ELSE IF IsInf(a) /\ IsInf(b) THEN a[1] < b[1]
  ELSE a[1] * b[2] < b[1] * a[2]

\* fabs(a)
Fabs(a) == <<AbsInt(a[1]), a[2]>>

RECURSIVE PowNat(_, _)
PowNat(a, k) == IF k = 0 THEN One ELSE Mul(a, PowNat(a, k - 1))

\* TMath::Power(a, k) = pow(a, k) for an integer-valued exponent k;
\* pow(a, 0) = 1 for every a, NaN included
Power(a, k) ==
  IF k = 0 THEN One
  ELSE IF k > 0 THEN PowNat(a, k)
  ELSE Inv(PowNat(a, -k))

(***************************************************************************)
(* Symbolic densities  c * exp(e).                                         *)
(***************************************************************************)
\* canonical form: a coefficient that is 0, Inf or NaN swallows the exponential
Val(c, e) == IF IsFinite(c) /\ c # Zero THEN [c |-> c, e |-> e]
             ELSE [c |-> c, e |-> Zero]

\* exp(a)
Exp(a) ==
  IF IsNaN(a) THEN Val(NaN, Zero)
  ELSE IF IsInf(a) THEN (IF a[1] < 0 THEN Val(Zero, Zero) ELSE Val(<<1, 0>>, Zero))
  ELSE Val(One, a)

\* r * v for a Double_t r and a density v
Scale(r, v) == Val(Mul(r, v.c), v.e)

\* v + w.  All the summands of one evaluation carry the same exponential
\* factor; a sum of two different exponentials is not representable and is
\* left undefined (TLC stops if it is ever asked for).
VAdd(v, w) ==
  CASE v.e = w.e -> Val(Add(v.c, w.c), v.e)
    [] v.e # w.e /\ v.c = Zero -> w
    [] v.e # w.e /\ v.c # Zero /\ w.c = Zero -> v
    [] v.e # w.e /\ v.c # Zero /\ w.c # Zero /\ (~IsFinite(v.c) \/ ~IsFinite(w.c))
         -> Val(Add(v.c, w.c), Zero)

\* -0.5*a*a
GaussArg(a) == Mul(<<-1, 2>>, Mul(a, a))


(***************************************************************************)
(* RooModDSCB::evaluate.  A parameter snapshot p is the record of the      *)
(* proxies' current values                                                 *)
(*   [x, x0, sigmaL, sigmaR, alphaL, nL1, nL2, fL, alphaR, nR1, nR2, fR]   *)
(* with integers for all but fL, fR, which are rationals <<n, d>>.         *)
(***************************************************************************)
\* left_sigma = (x-x0)/sigmaL
DSCBLeftSigma(p) == Div(Sub(R(p.x), R(p.x0)), R(p.sigmaL))

\* right_sigma = (x-x0)/sigmaR
DSCBRightSigma(p) == Div(Sub(R(p.x), R(p.x0)), R(p.sigmaR))

\* the if / else if / else if / else chain
DSCBRegionMixedWidth(p) ==
  IF Less(DSCBLeftSigma(p), Mul(R(-1), R(p.alphaL))) THEN "leftTail"
  ELSE IF Less(DSCBLeftSigma(p), Zero) THEN "leftCore"
  ELSE IF Less(DSCBLeftSigma(p), R(p.alphaR)) THEN "rightCore"
  ELSE "rightTail"

DSCBRegion(p) ==
  IF Less(DSCBLeftSigma(p), Mul(R(-1), R(p.alphaL))) THEN "leftTail"
  ELSE IF Less(DSCBLeftSigma(p), Zero) THEN "leftCore"
  ELSE IF Less(DSCBRightSigma(p), R(p.alphaR)) THEN "rightCore"
  ELSE "rightTail"

N2EffUnclamped(n1, n2) == n2

\* n2_eff = n2; if (n2 < n1) n2_eff = n1;
N2Eff(n1, n2) == IF n2 < n1 THEN n1 ELSE n2

AbsAlphaSigned(alpha) == R(alpha)

\* abs_alpha = fabs(alpha)
AbsAlpha(alpha) == Fabs(R(alpha))

PowerLawBPlus(n, abs_alpha) == Add(Div(R(n), abs_alpha), abs_alpha)

\* B = n/abs_alpha-abs_alpha
PowerLawB(n, abs_alpha) == Sub(Div(R(n), abs_alpha), abs_alpha)

\* A = TMath::Power(n/abs_alpha,n)*exp(-0.5*abs_alpha*abs_alpha)
PowerLawA(n, abs_alpha) ==
  Scale(Power(Div(R(n), abs_alpha), n), Exp(GaussArg(abs_alpha)))

\* the locals of a power-law branch for the pair (n1, n2), fraction f, boundary alpha
PowerLawLocals(n1, n2, alpha) ==
  LET n2e == N2Eff(n1, n2)
      aa  == AbsAlpha(alpha)
  IN  [n1 |-> n1, n2_eff |-> n2e, abs_alpha |-> aa,
       B1 |-> PowerLawB(n1, aa), B2 |-> PowerLawB(n2e, aa),
       A1 |-> PowerLawA(n1, aa), A2 |-> PowerLawA(n2e, aa)]

\* f*power_law1+(1.0-f)*power_law2, the base of power law k being B_k + sgn*z
\* (sgn = -1 in the left branch, +1 in the right branch)
PowerLawBlend(l, f, sgn, z) ==
  LET pl1 == Scale(Power(Add(l.B1, Mul(R(sgn), z)), -l.n1), l.A1)
      pl2 == Scale(Power(Add(l.B2, Mul(R(sgn), z)), -l.n2_eff), l.A2)
  IN  VAdd(Scale(f, pl1), Scale(Sub(One, f), pl2))

\* the left power-law branch, as a function of the normalized distance z
DSCBLeftTail(p, z) ==
  PowerLawBlend(PowerLawLocals(p.nL1, p.nL2, p.alphaL), p.fL, -1, z)

\* the right power-law branch, as a function of the normalized distance z
DSCBRightTail(p, z) ==
  PowerLawBlend(PowerLawLocals(p.nR1, p.nR2, p.alphaR), p.fR, 1, z)

\* exp(-0.5*exp_arg*exp_arg)
GaussianCore(exp_arg) == Exp(GaussArg(exp_arg))

\* the locals the taken branch computes
DSCBLocals(p) ==
  CASE DSCBRegion(p) = "leftTail" -> PowerLawLocals(p.nL1, p.nL2, p.alphaL)
    [] DSCBRegion(p) = "leftCore" -> [exp_arg |-> DSCBLeftSigma(p)]
    [] DSCBRegion(p) = "rightCore" -> [exp_arg |-> DSCBRightSigma(p)]
    [] DSCBRegion(p) = "rightTail" -> PowerLawLocals(p.nR1, p.nR2, p.alphaR)

\* the value RooModDSCB::evaluate returns for the snapshot p
RooModDSCBEvaluate(p) ==
  CASE DSCBRegion(p) = "leftTail" -> DSCBLeftTail(p, DSCBLeftSigma(p))
    [] DSCBRegion(p) = "leftCore" -> GaussianCore(DSCBLeftSigma(p))
    [] DSCBRegion(p) = "rightCore" -> GaussianCore(DSCBRightSigma(p))
    [] DSCBRegion(p) = "rightTail" -> DSCBRightTail(p, DSCBRightSigma(p))

(***************************************************************************)
(* RooGaussBern::evaluate.  A parameter snapshot p is the record           *)
(*   [x, x0, sigma, alphaL, alphaR, low, high, bernCoefsL, bernCoefsR]     *)
(* of integers and of two sequences of integers; low and high are x.min()  *)
(* and x.max().  bernCoefs[k] of the code is coefs[k+1] here.              *)
(***************************************************************************)
\* norm_dist = (x-x0)/sigma
GBNormDist(p) == Div(Sub(R(p.x), R(p.x0)), R(p.sigma))

GBRegionLeftInclusive(p) ==
  IF ~Less(Mul(R(-1), R(p.alphaL)), GBNormDist(p)) THEN "leftTail"
  ELSE IF Less(GBNormDist(p), R(p.alphaR)) THEN "core"
  ELSE "rightTail"

\* the if / else if / else chain
GBRegion(p) ==
  IF Less(GBNormDist(p), Mul(R(-1), R(p.alphaL))) THEN "leftTail"
  ELSE IF Less(GBNormDist(p), R(p.alphaR)) THEN "core"
  ELSE "rightTail"

\* boundary = x0-alphaL*sigma
GBBoundaryL(p) == Sub(R(p.x0), Mul(R(p.alphaL), R(p.sigma)))

\* boundary = x0+alphaR*sigma
GBBoundaryR(p) == Add(R(p.x0), Mul(R(p.alphaR), R(p.sigma)))

\* x_scaled = (x-low_edge)/(boundary-low_edge)
GBXScaledL(p) == Div(Sub(R(p.x), R(p.low)), Sub(GBBoundaryL(p), R(p.low)))

\* x_scaled = (x-boundary)/(high_edge-boundary)
GBXScaledR(p) == Div(Sub(R(p.x), GBBoundaryR(p)), Sub(R(p.high), GBBoundaryR(p)))

\* coef0 = exp(-0.5*alpha*alpha)
GBCoef0(alpha) == Exp(GaussArg(R(alpha)))

GBLoopCondStrict(i, bern_order) == i < bern_order

\* the loop condition  i <= bern_order
GBLoopCond(i, bern_order) == i <= bern_order

GBReadsCoefInclusive(side, i, bern_order) ==
  IF side = "L" THEN i <= bern_order ELSE i > 0

\* whether iteration i multiplies term_coef by a list element:
\* i < bern_order on the left, i > 0 on the right
GBReadsCoef(side, i, bern_order) ==
  IF side = "L" THEN i < bern_order ELSE i > 0

\* the index iteration i reads: bernCoefsL[i], bernCoefsR[i-1]
GBReadIndex(side, i) == IF side = "L" THEN i ELSE i - 1

\* the list element at index k; a read outside the list is the value `garbage`
CoefAt(coefs, k, garbage) ==
  IF k \in 0 .. (Len(coefs) - 1) THEN coefs[k + 1] ELSE garbage

\* term_coef / coef0 of iteration i
GBTermCoef(side, coefs, i, garbage) ==
  IF GBReadsCoef(side, i, Len(coefs))
  THEN R(CoefAt(coefs, GBReadIndex(side, i), garbage))
  ELSE One

GBTermFlipped(side, coefs, u, i, garbage) ==
  Mul(Mul(GBTermCoef(side, coefs, i, garbage), Power(u, i)),
      Power(Sub(u, One), Len(coefs) - i))

\* term_coef*TMath::Power(x_scaled, powone)*TMath::Power(1.0-x_scaled, powtwo),
\* divided by coef0
GBTerm(side, coefs, u, i, garbage) ==
  Mul(Mul(GBTermCoef(side, coefs, i, garbage), Power(u, i)),
      Power(Sub(One, u), Len(coefs) - i))

\* the for loop from iteration i on, as far as it does not depend on the
\* values: acc = [iters, reads], the iterations run and the list indices
\* read, in order.  (The second conjunct only stops the unfolding of a loop
\* whose condition never turns false; with the condition as written it is
\* implied by it.)
RECURSIVE GBLoopTrace(_, _, _, _)
GBLoopTrace(side, bern_order, i, acc) ==
  IF GBLoopCond(i, bern_order) /\ i <= bern_order + 1
  THEN GBLoopTrace(side, bern_order, i + 1,
         [iters |-> acc.iters + 1,
          reads |-> IF GBReadsCoef(side, i, bern_order)
                    THEN Append(acc.reads, GBReadIndex(side, i))
                    ELSE acc.reads])
  ELSE acc

\* the for loop from iteration i on: rval += term, with rval / coef0 in acc
RECURSIVE GBLoop(_, _, _, _, _, _)
GBLoop(side, coefs, u, garbage, i, acc) ==
  IF GBLoopCond(i, Len(coefs)) /\ i <= Len(coefs) + 1
  THEN GBLoop(side, coefs, u, garbage, i + 1,
              Add(acc, GBTerm(side, coefs, u, i, garbage)))
  ELSE acc

\* a polynomial branch for the scaled coordinate u: rval = 0.0, then the
\* loop; every term carries the factor coef0
GBTail(side, coefs, u, coef0, garbage) ==
  Scale(GBLoop(side, coefs, u, garbage, 0, Zero), coef0)

\* the locals of a polynomial branch
GBTailLocals(side, coefs, boundary, denom, u, coef0) ==
  LET t == GBLoopTrace(side, Len(coefs), 0, [iters |-> 0, reads |-> <<>>])
  IN  [boundary |-> boundary, denom |-> denom, x_scaled |-> u,
       bern_order |-> Len(coefs), coef0 |-> coef0,
       iters |-> t.iters, reads |-> t.reads]

\* the locals the taken branch computes
GBLocals(p) ==
  CASE GBRegion(p) = "leftTail" ->
         GBTailLocals("L", p.bernCoefsL, GBBoundaryL(p),
                      Sub(GBBoundaryL(p), R(p.low)), GBXScaledL(p), GBCoef0(p.alphaL))
    [] GBRegion(p) = "core" -> [exp_arg |-> GBNormDist(p)]
    [] GBRegion(p) = "rightTail" ->
         GBTailLocals("R", p.bernCoefsR, GBBoundaryR(p),
                      Sub(R(p.high), GBBoundaryR(p)), GBXScaledR(p), GBCoef0(p.alphaR))

\* the value in rval at the return
GBValue(p, garbage) ==
  CASE GBRegion(p) = "leftTail" ->
         GBTail("L", p.bernCoefsL, GBXScaledL(p), GBCoef0(p.alphaL), garbage)
    [] GBRegion(p) = "core" -> GaussianCore(GBNormDist(p))
    [] GBRegion(p) = "rightTail" ->
         GBTail("R", p.bernCoefsR, GBXScaledR(p), GBCoef0(p.alphaR), garbage)

\* the value RooGaussBern::evaluate returns for the snapshot p
RooGaussBernEvaluate(p) == GBValue(p, 0)

(***************************************************************************)
(* The state machine.  A shape object is constructed over its parameters   *)
(* (the constructors copy the proxies and the two coefficient lists as     *)
(* given, with no check), and the framework then calls evaluate(), which   *)
(* reads the current values and returns one number.                        *)
(***************************************************************************)
VARIABLES
  shape,   \* "GaussBern" or "ModDSCB": the class of the object
  par,     \* the current values of the object's parameters
  pc,      \* "ready": constructed;  "done": evaluate() has returned
  region,  \* the branch evaluate() took
  loc,     \* the locals of that branch
  ret      \* the value returned

vars == <<shape, par, pc, region, loc, ret>>

\* the centre x0
X0Values == {0, 1}

\* the widths sigma, sigmaL, sigmaR (positive)
SigmaValues == {1, 2}

\* the boundaries alphaL, alphaR: negative, zero and positive
AlphaValues == -1 .. MaxAlpha

\* the declared range [x.min(), x.max()] of the observable
RangeValues == {<<-3, 2>>, <<-2, 3>>}

\* the Bernstein coefficients: negative, zero and positive
CoefValues == {-1, 0, 1}

CoefLists == UNION {[1 .. n -> CoefValues] : n \in 0 .. MaxLen}

\* the lists 1, 1, ..., 1 of every length
UnitLists == {[k \in 1 .. n |-> 1] : n \in 0 .. MaxLen}

\* An evaluation runs one polynomial branch at most, so the two lists are
\* varied one at a time: one side takes every list, the other a unit list
\* of any length.
ListPairs == (CoefLists \X UnitLists) \cup (UnitLists \X CoefLists)

NValues == 1 .. MaxN

\* the mixing fractions fL, fR
FValues == {<<0, 1>>, <<1, 2>>, <<1, 1>>}

\* (n1, n2, f) of one side
TailValues == NValues \X NValues \X FValues

\* An evaluation runs one power-law branch at most, so the two sides are
\* varied one at a time: the other side stays at n1 = n2 = 1, f = 1/2.
TailPairs == (TailValues \X {<<1, 1, <<1, 2>>>>})
               \cup ({<<1, 1, <<1, 2>>>>} \X TailValues)

\* the observable's values in RooModDSCB
DSCBXValues == -2 .. 2

\* RooGaussBern::RooGaussBern: the lists are copied element by element,
\* whatever their lengths; the observable's value lies in its range
InitGaussBern ==
  /\ shape = "GaussBern"
  /\ \E rg \in RangeValues, lp \in ListPairs :
       par \in [x : rg[1] .. rg[2], x0 : X0Values, sigma : SigmaValues,
                alphaL : AlphaValues, alphaR : AlphaValues,
                low : {rg[1]}, high : {rg[2]},
                bernCoefsL : {lp[1]}, bernCoefsR : {lp[2]}]

\* RooModDSCB::RooModDSCB
InitModDSCB ==
  /\ shape = "ModDSCB"
  /\ \E tp \in TailPairs :
       par \in [x : DSCBXValues, x0 : X0Values,
                sigmaL : SigmaValues, sigmaR : SigmaValues,
                alphaL : AlphaValues, alphaR : AlphaValues,
                nL1 : {tp[1][1]}, nL2 : {tp[1][2]}, fL : {tp[1][3]},
                nR1 : {tp[2][1]}, nR2 : {tp[2][2]}, fR : {tp[2][3]}]

Init ==
  /\ InitGaussBern \/ InitModDSCB
  /\ pc = "ready"
  /\ region = "none"
  /\ loc = "none"
  /\ ret = "none"

\* what a read of bernCoefs can return: the element, or any value when the
\* index is outside the list
GBGarbageValues(l) ==
  IF \A j \in 1 .. Len(l.reads) : l.reads[j] \in 0 .. (l.bern_order - 1)
  THEN {0}
  ELSE CoefValues

\* Double_t RooGaussBern::evaluate() const
GaussBernEvaluate ==
  /\ shape = "GaussBern"
  /\ pc = "ready"
  /\ region' = GBRegion(par)
  /\ loc' = GBLocals(par)
  /\ \E garbage \in (IF region' = "core" THEN {0} ELSE GBGarbageValues(loc')) :
       ret' = GBValue(par, garbage)
  /\ pc' = "done"
  /\ UNCHANGED <<shape, par>>

\* Double_t RooModDSCB::evaluate() const
ModDSCBEvaluate ==
  /\ shape = "ModDSCB"
  /\ pc = "ready"
  /\ region' = DSCBRegion(par)
  /\ loc' = DSCBLocals(par)
  /\ ret' = RooModDSCBEvaluate(par)
  /\ pc' = "done"
  /\ UNCHANGED <<shape, par>>

Next == GaussBernEvaluate \/ ModDSCBEvaluate

Spec == Init /\ [][Next]_vars

(***************************************************************************)
(* The claims.  The thresholds are stated on the integer parameters: the   *)
(* widths are positive, so (x-x0)/sigma = alpha is x - x0 = alpha*sigma.   *)
(***************************************************************************)
GBDone == shape = "GaussBern" /\ pc = "done"

DSCBDone == shape = "ModDSCB" /\ pc = "done"

InTail == region \in {"leftTail", "rightTail"}

\* the sample lies exactly on the left / right threshold of RooGaussBern
GBOnLeft == par.x - par.x0 = -par.alphaL * par.sigma

GBOnRight == par.x - par.x0 = par.alphaR * par.sigma

\* the sample lies exactly on the left / right threshold of RooModDSCB
DSCBOnLeft == par.x - par.x0 = -par.alphaL * par.sigmaL

DSCBOnRight == par.x - par.x0 = par.alphaR * par.sigmaR

\* C1, as claimed: in both shapes a sample exactly on a core/tail threshold
\* (z = -alphaL or z = alphaR) is evaluated with a tail formula, not with
\* the Gaussian core.
C1_ThresholdSampleInTail ==
  /\ GBDone /\ (GBOnLeft \/ GBOnRight) => InTail
  /\ DSCBDone /\ (DSCBOnLeft \/ DSCBOnRight) => InTail

\* C1, amended: a sample exactly on the right threshold z = alphaR is
\* evaluated with a tail formula (the right tail when the left test does not
\* take it first; in RooModDSCB for alphaR >= 0), while a sample exactly on
\* the left threshold z = -alphaL is never in the left tail: the left test
\* is the strict z < -alphaL, so the sample goes to the Gaussian core
\* (RooGaussBern when -alphaL < alphaR, RooModDSCB when alphaL > 0).
C1_RightThresholdTailLeftThresholdCore ==
  /\ GBDone /\ GBOnRight => InTail
  /\ GBDone /\ GBOnRight /\ -par.alphaL <= par.alphaR => region = "rightTail"
  /\ GBDone /\ GBOnLeft => region # "leftTail"
  /\ GBDone /\ GBOnLeft /\ -par.alphaL < par.alphaR => region = "core"
  /\ DSCBDone /\ DSCBOnRight /\ par.alphaR >= 0 => InTail
  /\ DSCBDone /\ DSCBOnRight /\ par.alphaR >= 0 /\ par.alphaL >= 0
       => region = "rightTail"
  /\ DSCBDone /\ DSCBOnLeft => region # "leftTail"
  /\ DSCBDone /\ DSCBOnLeft /\ par.alphaL > 0 => region = "leftCore"

C1_Witness ==
  /\ GBDone /\ GBOnLeft /\ par.alphaL > 0 /\ par.alphaR > 0
  /\ region = "core" /\ ret = Exp(GaussArg(R(par.alphaL)))

\* C2: RooModDSCB::evaluate picks exactly one of its four regions, the one
\* the ordered rule gives: left tail if leftZ < -alphaL; else left core if
\* leftZ < 0; else right core if rightZ < alphaR; else right tail, with
\* leftZ = (x-x0)/sigmaL and rightZ = (x-x0)/sigmaR.
C2_RegionByOrderedRule ==
  DSCBDone =>
    LET d == par.x - par.x0
    IN  /\ region \in {"leftTail", "leftCore", "rightCore", "rightTail"}
        /\ region = "leftTail" <=> d < -par.alphaL * par.sigmaL
        /\ region = "leftCore" <=> ~(d < -par.alphaL * par.sigmaL) /\ d < 0
        /\ region = "rightCore" <=>
             ~(d < -par.alphaL * par.sigmaL) /\ ~(d < 0) /\ d < par.alphaR * par.sigmaR
        /\ region = "rightTail" <=>
             ~(d < -par.alphaL * par.sigmaL) /\ ~(d < 0) /\ ~(d < par.alphaR * par.sigmaR)

\* a negative alphaL: the left test shadows the later ones right of the centre
C2_Witness ==
  /\ DSCBDone /\ par.alphaL < 0 /\ par.x > par.x0 /\ region = "leftTail"
  /\ par.sigmaL # par.sigmaR

\* C3, as claimed: for every alpha the evaluator accepts, the left power-law
\* formula at z = -alphaL equals exp(-0.5*alphaL^2) and the right one at
\* z = alphaR equals exp(-0.5*alphaR^2).
C3_TailMeetsCoreForEveryAlpha ==
  DSCBDone =>
    /\ DSCBLeftTail(par, R(-par.alphaL)) = Exp(GaussArg(R(par.alphaL)))
    /\ DSCBRightTail(par, R(par.alphaR)) = Exp(GaussArg(R(par.alphaR)))

\* C3, amended: for alpha > 0 the power-law formula at the threshold equals
\* the core's value exp(-0.5*alpha^2), on the left at z = -alphaL and on the
\* right at z = alphaR, where the evaluator returns it.
C3_TailMeetsCoreForPositiveAlpha ==
  DSCBDone =>
    /\ par.alphaL > 0 =>
         DSCBLeftTail(par, R(-par.alphaL)) = Exp(GaussArg(R(par.alphaL)))
    /\ par.alphaR > 0 =>
         DSCBRightTail(par, R(par.alphaR)) = Exp(GaussArg(R(par.alphaR)))
    /\ par.alphaR > 0 /\ DSCBOnRight /\ region = "rightTail" =>
         ret = Exp(GaussArg(R(par.alphaR)))

C3_Witness ==
  /\ DSCBDone /\ DSCBOnRight /\ region = "rightTail" /\ par.alphaR > 0
  /\ par.nR1 # par.nR2 /\ par.fR = <<1, 2>>
  /\ ret = [c |-> One, e |-> GaussArg(R(par.alphaR))]

\* C4: the tail sum at the junction is coef0: the left sum at u = 1 and the
\* right sum at u = 0 reduce to the implicit term, and evaluating at x
\* exactly on the right boundary returns exp(-0.5*alphaR^2).  (Stated for
\* positive alphas, where that sample is in the right tail.)
C4_JunctionValueIsCoef0 ==
  GBDone =>
    /\ GBTail("L", par.bernCoefsL, One, GBCoef0(par.alphaL), 0) = GBCoef0(par.alphaL)
    /\ GBTail("R", par.bernCoefsR, Zero, GBCoef0(par.alphaR), 0) = GBCoef0(par.alphaR)
    /\ par.alphaL > 0 /\ par.alphaR > 0 /\ GBOnRight =>
         ret = Exp(GaussArg(R(par.alphaR)))

\* C5: with n2 < n1 on a side, evaluate returns what it returns with n2 = n1;
\* the branch uses n2_eff = n1 then and the supplied n2 otherwise, and n1 as
\* supplied.
C5_ClampedExponent ==
  DSCBDone =>
    /\ par.nL2 < par.nL1 => ret = RooModDSCBEvaluate([par EXCEPT !.nL2 = par.nL1])
    /\ par.nR2 < par.nR1 => ret = RooModDSCBEvaluate([par EXCEPT !.nR2 = par.nR1])
    /\ region = "leftTail" =>
         /\ loc.n1 = par.nL1
         /\ loc.n2_eff = (IF par.nL2 >= par.nL1 THEN par.nL2 ELSE par.nL1)
    /\ region = "rightTail" =>
         /\ loc.n1 = par.nR1
         /\ loc.n2_eff = (IF par.nR2 >= par.nR1 THEN par.nR2 ELSE par.nR1)

C5_Witness ==
  /\ DSCBDone /\ region = "leftTail" /\ par.nL2 < par.nL1 /\ par.fL = <<1, 2>>
  /\ par.alphaL > 0 /\ IsFinite(ret.c) /\ loc.n2_eff = par.nL1

\* the explicit coefficients of the branch taken are all >= 0
CoefsNonNegative ==
  LET coefs == IF region = "leftTail" THEN par.bernCoefsL ELSE par.bernCoefsR
  IN  \A k \in 1 .. Len(coefs) : coefs[k] >= 0

\* the scaled coordinate of the branch taken lies in [0,1]
InUnitInterval(u) == IsFinite(u) /\ ~Less(u, Zero) /\ ~Less(One, u)

\* C6: with all coefficients >= 0 and u in [0,1], the Bernstein tail value
\* is >= 0, on both sides.
C6_BernsteinTailNonNegative ==
  GBDone /\ InTail /\ CoefsNonNegative /\ InUnitInterval(loc.x_scaled)
    => IsFinite(ret.c) /\ ~Less(ret.c, Zero)

C6_Witness ==
  /\ GBDone /\ region = "leftTail" /\ Len(par.bernCoefsL) = 2
  /\ CoefsNonNegative /\ par.bernCoefsL[1] = 0
  /\ Less(Zero, loc.x_scaled) /\ Less(loc.x_scaled, One)
  /\ Less(Zero, ret.c)

\* C7, as claimed: nothing computed inside a tail branch changes when alpha
\* is replaced by -alpha: A and B of the power-law shape, and the boundary,
\* the scaled coordinate and coef0 of the Bernstein shape.
C7_TailReadsOnlyMagnitude ==
  /\ DSCBDone /\ region = "leftTail" =>
       PowerLawLocals(par.nL1, par.nL2, -par.alphaL) = loc
  /\ DSCBDone /\ region = "rightTail" =>
       PowerLawLocals(par.nR1, par.nR2, -par.alphaR) = loc
  /\ GBDone /\ region = "leftTail" =>
       /\ GBBoundaryL([par EXCEPT !.alphaL = -par.alphaL]) = loc.boundary
       /\ GBXScaledL([par EXCEPT !.alphaL = -par.alphaL]) = loc.x_scaled
       /\ GBCoef0(-par.alphaL) = loc.coef0
  /\ GBDone /\ region = "rightTail" =>
       /\ GBBoundaryR([par EXCEPT !.alphaR = -par.alphaR]) = loc.boundary
       /\ GBXScaledR([par EXCEPT !.alphaR = -par.alphaR]) = loc.x_scaled
       /\ GBCoef0(-par.alphaR) = loc.coef0

\* C7, amended: the power-law branches read alpha only through |alpha|
\* (abs_alpha, A, B and the value returned are unchanged by alpha -> -alpha),
\* and so does coef0 of the Bernstein branches; the Bernstein boundary
\* x0 -/+ alpha*sigma is computed from the signed alpha and moves when a
\* non-zero alpha is negated.
C7_MagnitudeInPowerLawAndCoef0Only ==
  /\ DSCBDone /\ region = "leftTail" =>
       /\ PowerLawLocals(par.nL1, par.nL2, -par.alphaL) = loc
       /\ DSCBLeftTail([par EXCEPT !.alphaL = -par.alphaL], DSCBLeftSigma(par)) = ret
  /\ DSCBDone /\ region = "rightTail" =>
       /\ PowerLawLocals(par.nR1, par.nR2, -par.alphaR) = loc
       /\ DSCBRightTail([par EXCEPT !.alphaR = -par.alphaR], DSCBRightSigma(par)) = ret
  /\ GBDone /\ region = "leftTail" =>
       /\ GBCoef0(-par.alphaL) = loc.coef0
       /\ par.alphaL # 0 =>
            GBBoundaryL([par EXCEPT !.alphaL = -par.alphaL]) # loc.boundary
  /\ GBDone /\ region = "rightTail" =>
       /\ GBCoef0(-par.alphaR) = loc.coef0
       /\ par.alphaR # 0 =>
            GBBoundaryR([par EXCEPT !.alphaR = -par.alphaR]) # loc.boundary

C7_Witness ==
  /\ DSCBDone /\ region = "leftTail" /\ par.alphaL < 0
  /\ loc.abs_alpha = R(-par.alphaL) /\ IsFinite(ret.c)

\* C8: list lengths are not checked (the sides may differ), and with an
\* empty list the branch returns coef0 = exp(-0.5*alpha^2) whatever x and
\* the range edges are.
C8_EmptyListGivesCoef0 ==
  /\ GBDone /\ region = "leftTail" /\ Len(par.bernCoefsL) = 0 =>
       ret = Exp(GaussArg(R(par.alphaL)))
  /\ GBDone /\ region = "rightTail" /\ Len(par.bernCoefsR) = 0 =>
       ret = Exp(GaussArg(R(par.alphaR)))

\* an empty right list beside a longer left one, at a sample whose scaled
\* coordinate is 0/0
C8_Witness ==
  /\ GBDone /\ region = "rightTail" /\ Len(par.bernCoefsR) = 0
  /\ Len(par.bernCoefsL) = 2 /\ IsNaN(loc.x_scaled)
  /\ ret = Exp(GaussArg(R(par.alphaR)))

\* C9: for sigma > 0 and x in [low_edge, high_edge], in a tail branch the
\* denominator of the scaled coordinate is non-zero and 0 <= x_scaled <= 1.
C9_ScaledCoordinateInUnitInterval ==
  GBDone /\ InTail /\ par.sigma > 0 /\ par.low <= par.x /\ par.x <= par.high
    => loc.denom # Zero /\ InUnitInterval(loc.x_scaled)

\* C10: the tail loop runs exactly bern_order+1 iterations, and it reads the
\* list at the indices 0, 1, ..., bern_order-1, each once and none outside.
C10_LoopRunsOrderPlusOneAndReadsEachOnce ==
  GBDone /\ InTail =>
    /\ loc.bern_order =
         Len(IF region = "leftTail" THEN par.bernCoefsL ELSE par.bernCoefsR)
    /\ loc.iters = loc.bern_order + 1
    /\ loc.reads = [k \in 1 .. loc.bern_order |-> k - 1]

C10_Witness ==
  /\ GBDone /\ region = "rightTail" /\ loc.bern_order = 2
  /\ loc.iters = 3 /\ loc.reads = <<0, 1>>
  /\ Len(par.bernCoefsL) # 2

=============================================================================
